---- MODULE Spec2Model ----
(***************************************************************************)
(* Volleyball simulator: the match simulation engines                      *)
(* (game_engine/match_simulation.py, optimized_match_simulation.py) and    *)
(* the season scheduler (game_engine/season_management.py).                *)
(*                                                                         *)
(* Specifications:                                                         *)
(*   Spec          simulate_match of both simulators, any random draws     *)
(*   SpecReplay    two fresh seeded OptimizedVolleyballSimulator runs      *)
(*   SpecCache     simulate_match calls on one seeded optimized simulator  *)
(*   SpecRally     VolleyballSimulator._simulate_rally, step by step       *)
(*   SpecSchedule  SeasonManager._schedule_league_matches                  *)
(*   SpecSeason    SeasonManager.create_season                             *)
(*   SpecCalc      _calculate_team_strength, _calculate_revenue and        *)
(*                 _compile_match_stats of VolleyballSimulator             *)
(***************************************************************************)
EXTENDS Integers, Sequences, FiniteSets, TLC

(***************************************************************************)
(* Bounds of the model.                                                    *)
(***************************************************************************)
\* rallies the unbounded while loop of _simulate_set is followed for
MaxRallies == 103
\* wall-clock readings: a set lasts 0..MaxDuration seconds
MaxDuration == 1
\* random.random() is drawn on a grid of 1000 \div DrawStep values of [0,1)
DrawStep == 20
\* seeds tried for random.Random(seed)
MaxSeed == 1
\* simulate_match calls made on one simulator
MaxMatches == 2
\* participants of a league: at most MaxClubs, all distinct or drawn with
\* repetition from DupClubs club ids
MaxClubs == 6
DupClubs == 2
\* create_season: participating_countries of at most MaxCountryList ids, at
\* most MaxTierClubs clubs in a populated division, at most MaxFailures
\* failing writes of the persistence sink
MaxCountryList == 2
MaxTierClubs == 3
MaxFailures == 1
\* _calculate_team_strength: rosters of at most MaxRoster players
MaxRoster == 2
\* _calculate_revenue: attendance 0..MaxAttendance, division tiers 1..MaxTier
MaxAttendance == 12
MaxTier == 20
\* _compile_match_stats: at most MaxStatSets sets, the event log of each
\* the log of a rally of at most MaxRallyLog events
MaxStatSets == 2
MaxRallyLog == 3

(***************************************************************************)
(* Program constants.                                                      *)
(***************************************************************************)
SET_TARGET_POINTS == 25
FIFTH_SET_POINTS == 15
MIN_WIN_MARGIN == 2
SETS_TO_WIN == 3
MAX_SETS == 5
RALLY_CAP == 100
MAX_TOUCHES == 20
TOTAL_DIVISIONS == 19

Teams == {"home", "away"}

Other(team) == IF team = "home" THEN "away" ELSE "home"

Max(a, b) == IF a >= b THEN a ELSE b

Min(a, b) == IF a <= b THEN a ELSE b

\* strengths are fixed-point numbers, Unit = 1.0
Unit == 100 * 100

\* probabilities and random draws are in thousandths
Mille == 10 * 100

NoResult == [none |-> TRUE]

VARIABLES
    \* ---- simulate_match (both simulators) ----
    sim,            \* "detailed" | "optimized" | "none"
    pc,             \* control position
    rng,            \* the random generator: seeded from entropy, or its state
    seed,           \* the seed the simulator was built with (NoSeed: None)
    run,            \* which of the two replayed runs this is (1 or 2)
    first_result,   \* MatchResult of the first of two replayed runs
    home_team, away_team,   \* the teams (with their tactics) of this call
    matches_played, \* simulate_match calls this simulator has returned from,
                    \* this one not counted
    strength_cache, \* _calculate_team_strength_cached: the dict cached per team
    MOMENTUM_FACTOR,    \* self.MOMENTUM_FACTOR of the VolleyballSimulator, in tenths
    home_strength, away_strength,
    set_num, home_sets, away_sets, sets_results,
    target_points, home_points, away_points, serving_team, rally_count,
    set_result,     \* the SetResult last returned
    match_result,   \* the value simulate_match returned
    \* ---- _simulate_rally ----
    rally,
    \* ---- _schedule_league_matches ----
    sched,
    \* ---- create_season ----
    season,
    \* ---- _calculate_team_strength, _calculate_revenue, _compile_match_stats ----
    calc

\* the arguments and the number of the simulate_match call
callVars == <<home_team, away_team, matches_played>>

matchVars == <<sim, pc, rng, seed, run, first_result, callVars, strength_cache,
               MOMENTUM_FACTOR, home_strength, away_strength,
               set_num, home_sets, away_sets, sets_results,
               target_points, home_points, away_points, serving_team, rally_count,
               set_result, match_result>>

vars == <<matchVars, rally, sched, season, calc>>

(***************************************************************************)
(* Scoring rules shared by both simulators.                                *)
(***************************************************************************)
IsSetCompleteMarginOne(h, a, t) ==
    \/ h >= t /\ h - a >= 1
    \/ a >= t /\ a - h >= 1

IsSetCompleteEveryOtherPoint(h, a, t) ==
    /\ (h + a) % 2 = 0
    /\ \/ (h >= t /\ h - a >= MIN_WIN_MARGIN)
       \/ (a >= t /\ a - h >= MIN_WIN_MARGIN)

\* _is_set_complete: target reached and a lead of two
IsSetComplete(h, a, t) ==
    \/ h >= t /\ h - a >= MIN_WIN_MARGIN
    \/ a >= t /\ a - h >= MIN_WIN_MARGIN

MatchDecidedHomeOnly(hs, as) == hs = SETS_TO_WIN

\* the break of the set loop: `if home_sets == 3 or away_sets == 3`
MatchDecided(hs, as) == hs = SETS_TO_WIN \/ as = SETS_TO_WIN

\* `for set_num in range(5)` is over, or the break was taken
MatchLoopOver(n, hs, as) == n >= MAX_SETS \/ MatchDecided(hs, as)

\* target_points = 15 if is_fifth_set else 25, is_fifth_set = set_num == 4
TargetPoints(n) == IF n = MAX_SETS - 1 THEN FIFTH_SET_POINTS ELSE SET_TARGET_POINTS

\* winner='home' if home_points > away_points else 'away'
WinnerOf(h, a) == IF h > a THEN "home" ELSE "away"

(***************************************************************************)
(* VolleyballSimulator._simulate_rally and its two phases.  A draw of      *)
(* random.random() is represented by the branch it selects: the branch     *)
(* probabilities are clamped inside (0,1) (ace in [0.01,0.15], serve error *)
(* in [0.02,0.12], attack success in [0.1,0.9], block 0.3), so every       *)
(* branch can be drawn whatever the two strengths are.  The operators     *)
(* AttackLoop and SimulateRally are for the baseline strengths, whose      *)
(* attack divisor 100.0 +- 0.1 is never 0.                                 *)
(***************************************************************************)
ServeDraws == {"ace", "serve_fault", "in_play"}

AttackDraws == {"kill", "dug", "blocked", "attack_fault"}

Event(type, team) == [type |-> type, team |-> team]

\* _simulate_serve
SimulateServe(draw, serving_team_) ==
    CASE draw = "ace" ->
           [rally_ends |-> TRUE, winner |-> serving_team_,
            event |-> Event("serve_ace", serving_team_)]
      [] draw = "serve_fault" ->
           [rally_ends |-> TRUE, winner |-> Other(serving_team_),
            event |-> Event("serve_error", serving_team_)]
      [] OTHER ->
           [rally_ends |-> FALSE, winner |-> "none",
            event |-> Event("dig_save", Other(serving_team_))]

SimulateAttackBlockToAttacker(draw, team) ==
    CASE draw = "kill" ->
           [rally_ends |-> TRUE, winner |-> team,
            event |-> Event("attack_kill", team)]
      [] draw = "dug" ->
           [rally_ends |-> FALSE, winner |-> "none",
            event |-> Event("dig_save", Other(team))]
      [] draw = "blocked" ->
           [rally_ends |-> TRUE, winner |-> team,
            event |-> Event("block_point", Other(team))]
      [] OTHER ->
           [rally_ends |-> TRUE, winner |-> Other(team),
            event |-> Event("attack_error", team)]

\* _simulate_attack
SimulateAttack(draw, team) ==
    CASE draw = "kill" ->
           [rally_ends |-> TRUE, winner |-> team,
            event |-> Event("attack_kill", team)]
      [] draw = "dug" ->
           [rally_ends |-> FALSE, winner |-> "none",
            event |-> Event("dig_save", Other(team))]
      [] draw = "blocked" ->
           [rally_ends |-> TRUE, winner |-> Other(team),
            event |-> Event("block_point", Other(team))]
      [] OTHER ->
           [rally_ends |-> TRUE, winner |-> Other(team),
            event |-> Event("attack_error", team)]

RallyLoopGuardOffByOne(rally_active, touches) == rally_active /\ touches <= MAX_TOUCHES

\* `while rally_active and touches < 20`
RallyLoopGuard(rally_active, touches) == rally_active /\ touches < MAX_TOUCHES

RallyResult(winner, events) == [winner |-> winner, events |-> events]

\* the attack/defense loop and the forced coin flip after it: every
\* RallyResult the loop can return from this position
RECURSIVE AttackLoop(_, _, _)
AttackLoop(attacking_team, touches, events) ==
    IF RallyLoopGuard(TRUE, touches)
    THEN UNION { LET o  == SimulateAttack(d, attacking_team)
                     ev == Append(events, o.event)
                 IN  IF o.rally_ends
                     THEN {RallyResult(o.winner, ev)}
                     ELSE AttackLoop(Other(attacking_team), touches + 1, ev)
                 : d \in AttackDraws }
    ELSE {RallyResult(w, events) : w \in Teams}

\* _simulate_rally: every RallyResult it can return for this server
SimulateRally(serving_team_) ==
    UNION { LET o == SimulateServe(d, serving_team_)
            IN  IF o.rally_ends
                THEN {RallyResult(o.winner, <<o.event>>)}
                ELSE AttackLoop(Other(serving_team_), 0, <<o.event>>)
            : d \in ServeDraws }

\* the winners _simulate_rally can return for this server
RallyWinners(serving_team_) == {r.winner : r \in SimulateRally(serving_team_)}

(***************************************************************************)
(* Team strengths.  The match actions below run with empty rosters, for    *)
(* which _calculate_team_strength returns the 50.0 baseline; the optimized *)
(* simulator's cached calculation returns the same vector for every team.  *)
(***************************************************************************)
StrengthKeys == {"overall", "attack", "defense", "serve", "receive"}

\* _calculate_team_strength for a team without players
BaselineStrength == [k \in StrengthKeys |-> 50 * Unit]

\* _calculate_team_strength_cached
CachedStrength ==
    [overall |-> 75 * Unit, attack |-> 80 * Unit, defense |-> 70 * Unit,
     serve |-> 75 * Unit, receive |-> 72 * Unit]

\* the teams simulate_match is called with: a team and its tactics, told
\* apart by _hash_team_data and _hash_tactics
TeamKeys == {"team_1", "team_2"}

\* the lru_cache of a new simulator holds nothing
EmptyCache == [t \in TeamKeys |-> NoResult]

\* the lru_cache after a call of _calculate_team_strength_cached for `team`:
\* a miss stores the dict the function body builds
CacheAfterLookup(cache, team) ==
    IF cache[team] = NoResult THEN [cache EXCEPT ![team] = CachedStrength]
                              ELSE cache

\* v * self.HOME_ADVANTAGE (1.05)
HomeAdvantage(v) == (v * 105) \div 100

\* _calculate_team_strength for a roster played with intensity 0
ZeroStrength == [k \in StrengthKeys |-> 0]

\* _update_momentum: MOMENTUM_FACTOR = max(-1.0, min(1.0, point_diff * 0.1)),
\* in tenths
UpdateMomentum(h, a) == Max(-10, Min(10, h - a))

\* the values MOMENTUM_FACTOR takes: 0.0 from __init__, then _update_momentum
MomentumValues == {UpdateMomentum(h, a) : h, a \in 0..SET_TARGET_POINTS}

\* momentum_bonus of _simulate_attack: +-MOMENTUM_FACTOR * 0.1, as a strength
MomentumBonus(team, momentum) ==
    IF team = "home" THEN momentum * (Unit \div 100) ELSE 0 - momentum * (Unit \div 100)

\* the divisor of success_prob in _simulate_attack
AttackDivisor(attacking_strength, defending_strength, team, momentum) ==
    attacking_strength.attack + defending_strength.defense
        + MomentumBonus(team, momentum)

\* fatigue_factor = min(0.1, set_duration * 0.001), in thousandths
FatigueFactor(duration) == Min(100, duration)

\* _apply_fatigue_optimized: every key of a strength vector *= (1 - fatigue_factor)
ApplyFatigueOptimized(strength, duration) ==
    [k \in StrengthKeys |-> (strength[k] * (Mille - FatigueFactor(duration))) \div Mille]

\* _calculate_momentum: max(-0.1, min(0.1, point_diff * 0.02)), in thousandths
CalculateMomentum(h, a) == Max(-100, Min(100, (h - a) * 20))

\* `self.rng.random() < adjusted_prob` with
\* adjusted_prob = home['overall'] / (home['overall'] + away['overall']) + momentum
HomeWinsRally(u, hs, as, h, a) ==
    u * (hs.overall + as.overall)
        < Mille * hs.overall + CalculateMomentum(h, a) * (hs.overall + as.overall)

(***************************************************************************)
(* The random generator of OptimizedVolleyballSimulator: random.Random().  *)
(* Unseeded it is seeded from system entropy, so any value may be drawn;   *)
(* seeded it is a deterministic generator, modelled by a full-period       *)
(* linear congruential generator on the thousandths.                       *)
(***************************************************************************)
Seeds == 0..MaxSeed

Draws == {k * DrawStep : k \in 0..((Mille - 1) \div DrawStep)}

\* seed=None
NoSeed == 0 - 1

\* random.Random(seed)
RandomInit(s) ==
    IF s = NoSeed THEN [entropy |-> TRUE, state |-> 0]
                  ELSE [entropy |-> FALSE, state |-> s]

RandomStep(state) == (state * 21 + 7) % Mille

\* the pairs <<value drawn, generator afterwards>> of one rng.random()
RandomDraw(gen) ==
    IF gen.entropy
    THEN {<<u, gen>> : u \in Draws}
    ELSE {<<RandomStep(gen.state), [gen EXCEPT !.state = RandomStep(gen.state)]>>}

\* time.time() - start_time, in whole seconds
Durations == 0..MaxDuration

(***************************************************************************)
(* simulate_match.  sets_results keeps, of every SetResult, the winner     *)
(* (and, in the optimized simulator, the wall-clock duration); the         *)
(* SetResult itself is in set_result from its return to the start of the   *)
(* next set.  The event log of a set (events, key_events) and what is      *)
(* derived from its length (the detailed duration, totalRallies, stats)    *)
(* are not kept in the state.                                              *)
(***************************************************************************)
otherVars == <<rally, sched, season, calc>>

\* the 'result' record simulate_match returns
DetailedMatchResult(hs, as, sets) ==
    [homeSets |-> hs, awaySets |-> as, sets |-> sets, winner |-> WinnerOf(hs, as)]

\* ---- VolleyballSimulator ------------------------------------------------

\* simulate_match, up to the set loop
DetailedSimulateMatch ==
    /\ sim = "detailed" /\ pc = "idle"
    /\ home_strength' = [BaselineStrength EXCEPT !.overall = HomeAdvantage(@)]
    /\ away_strength' = BaselineStrength
    /\ set_num' = 0 /\ home_sets' = 0 /\ away_sets' = 0 /\ sets_results' = <<>>
    /\ pc' = "match_loop"
    /\ UNCHANGED <<sim, rng, seed, run, first_result, target_points, home_points,
                   away_points, serving_team, rally_count, set_result, match_result>>
    /\ UNCHANGED <<callVars, strength_cache, MOMENTUM_FACTOR>>
    /\ UNCHANGED otherVars

\* one pass of `for set_num in range(5)` up to the while loop of _simulate_set
DetailedBeginSet ==
    /\ sim = "detailed" /\ pc = "match_loop"
    /\ ~MatchLoopOver(set_num, home_sets, away_sets)
    /\ target_points' = TargetPoints(set_num)
    /\ home_points' = 0 /\ away_points' = 0
    /\ serving_team' \in Teams
    /\ set_result' = NoResult
    /\ pc' = "set_loop"
    /\ UNCHANGED <<sim, rng, seed, run, first_result, home_strength, away_strength,
                   set_num, home_sets, away_sets, sets_results, rally_count,
                   match_result>>
    /\ UNCHANGED <<callVars, strength_cache, MOMENTUM_FACTOR>>
    /\ UNCHANGED otherVars

ServingTeamIsLoser(winner) == Other(winner)

\* `serving_team = 'home'` or `serving_team = 'away'` after the point
ServingTeamAfter(winner) == IF winner = "home" THEN "home" ELSE "away"

\* one iteration of the while loop of _simulate_set
DetailedRally ==
    /\ sim = "detailed" /\ pc = "set_loop"
    /\ ~IsSetComplete(home_points, away_points, target_points)
    /\ home_points + away_points < MaxRallies
    /\ \E winner \in RallyWinners(serving_team) :
          /\ home_points' = IF winner = "home" THEN home_points + 1 ELSE home_points
          /\ away_points' = IF winner = "home" THEN away_points ELSE away_points + 1
          /\ serving_team' = ServingTeamAfter(winner)
    /\ MOMENTUM_FACTOR' = UpdateMomentum(home_points', away_points')
    /\ UNCHANGED <<sim, pc, rng, seed, run, first_result, home_strength, away_strength,
                   set_num, home_sets, away_sets, sets_results, target_points,
                   rally_count, set_result, match_result>>
    /\ UNCHANGED <<callVars, strength_cache>>
    /\ UNCHANGED otherVars

\* _simulate_set returns; the rest of the pass of the set loop
\* (_apply_fatigue loops over the players: none in an empty roster)
DetailedEndSet ==
    /\ sim = "detailed" /\ pc = "set_loop"
    /\ IsSetComplete(home_points, away_points, target_points)
    /\ LET sr == [home_points |-> home_points, away_points |-> away_points,
                  winner |-> WinnerOf(home_points, away_points)]
       IN  /\ set_result' = sr
           /\ sets_results' = Append(sets_results, [winner |-> sr.winner])
           /\ home_sets' = IF sr.winner = "home" THEN home_sets + 1 ELSE home_sets
           /\ away_sets' = IF sr.winner = "home" THEN away_sets ELSE away_sets + 1
    /\ set_num' = set_num + 1
    /\ pc' = "match_loop"
    /\ UNCHANGED <<sim, rng, seed, run, first_result, home_strength, away_strength,
                   target_points, home_points, away_points, serving_team, rally_count,
                   match_result>>
    /\ UNCHANGED <<callVars, strength_cache, MOMENTUM_FACTOR>>
    /\ UNCHANGED otherVars

\* simulate_match after the set loop
DetailedReturn ==
    /\ sim = "detailed" /\ pc = "match_loop"
    /\ MatchLoopOver(set_num, home_sets, away_sets)
    /\ match_result' = DetailedMatchResult(home_sets, away_sets, sets_results)
    /\ pc' = "done"
    /\ UNCHANGED <<sim, rng, seed, run, first_result, home_strength, away_strength,
                   set_num, home_sets, away_sets, sets_results, target_points,
                   home_points, away_points, serving_team, rally_count, set_result>>
    /\ UNCHANGED <<callVars, strength_cache, MOMENTUM_FACTOR>>
    /\ UNCHANGED otherVars

\* ---- OptimizedVolleyballSimulator ---------------------------------------

RECURSIVE SumDurations(_)
SumDurations(sets) ==
    IF sets = <<>> THEN 0 ELSE Head(sets).duration + SumDurations(Tail(sets))

\* MatchResult(...) of the optimized simulate_match; stats holds
\* total_sets and total_duration of _compile_match_stats_optimized
OptimizedMatchResult(hs, as, sets) ==
    [homeSets |-> hs, awaySets |-> as, sets |-> sets, winner |-> WinnerOf(hs, as),
     duration |-> SumDurations(sets),
     stats |-> [total_sets |-> Len(sets), total_duration |-> SumDurations(sets)]]

\* simulate_match, up to the set loop
OptimizedSimulateMatch ==
    /\ sim = "optimized" /\ pc = "idle"
    /\ LET cache == CacheAfterLookup(CacheAfterLookup(strength_cache, home_team),
                                     away_team)
       IN  /\ strength_cache' = cache
           \* a new dict: {k: v * self.HOME_ADVANTAGE for k, v in ...}
           /\ home_strength' = [k \in StrengthKeys |-> HomeAdvantage(cache[home_team][k])]
           \* the cached dict itself
           /\ away_strength' = cache[away_team]
    /\ set_num' = 0 /\ home_sets' = 0 /\ away_sets' = 0 /\ sets_results' = <<>>
    /\ pc' = "match_loop"
    /\ UNCHANGED <<sim, rng, seed, run, first_result, target_points, home_points,
                   away_points, serving_team, rally_count, set_result, match_result>>
    /\ UNCHANGED <<callVars, MOMENTUM_FACTOR>>
    /\ UNCHANGED otherVars

\* one pass of `for set_num in range(5)` up to the while loop of
\* _simulate_set_optimized
OptimizedBeginSet ==
    /\ sim = "optimized" /\ pc = "match_loop"
    /\ ~MatchLoopOver(set_num, home_sets, away_sets)
    /\ target_points' = TargetPoints(set_num)
    /\ home_points' = 0 /\ away_points' = 0
    /\ rally_count' = 0
    /\ set_result' = NoResult
    /\ pc' = "set_loop"
    /\ UNCHANGED <<sim, rng, seed, run, first_result, home_strength, away_strength,
                   set_num, home_sets, away_sets, sets_results, serving_team,
                   match_result>>
    /\ UNCHANGED <<callVars, strength_cache, MOMENTUM_FACTOR>>
    /\ UNCHANGED otherVars

\* one iteration of the while loop of _simulate_set_optimized
OptimizedRally ==
    /\ sim = "optimized" /\ pc = "set_loop"
    /\ ~IsSetComplete(home_points, away_points, target_points)
    /\ rally_count' = rally_count + 1
    /\ IF rally_count + 1 > RALLY_CAP
       THEN /\ pc' = "set_break"
            /\ UNCHANGED <<rng, home_points, away_points>>
       ELSE /\ pc' = pc
            /\ \E d \in RandomDraw(rng) :
                  /\ rng' = d[2]
                  /\ IF HomeWinsRally(d[1], home_strength, away_strength,
                                      home_points, away_points)
                     THEN home_points' = home_points + 1 /\ away_points' = away_points
                     ELSE away_points' = away_points + 1 /\ home_points' = home_points
    /\ UNCHANGED <<sim, seed, run, first_result, home_strength, away_strength,
                   set_num, home_sets, away_sets, sets_results, target_points,
                   serving_team, set_result, match_result>>
    /\ UNCHANGED <<callVars, strength_cache, MOMENTUM_FACTOR>>
    /\ UNCHANGED otherVars

\* _simulate_set_optimized returns; the rest of the pass of the set loop
OptimizedEndSet ==
    /\ sim = "optimized"
    /\ IF pc = "set_loop"
       THEN IsSetComplete(home_points, away_points, target_points)
       ELSE pc = "set_break"
    /\ \E duration \in Durations :
         LET sr == [home_points |-> home_points, away_points |-> away_points,
                    winner |-> WinnerOf(home_points, away_points),
                    duration |-> duration]
         IN  /\ set_result' = sr
             /\ sets_results' = Append(sets_results,
                                       [winner |-> sr.winner, duration |-> sr.duration])
             /\ home_sets' = IF sr.winner = "home" THEN home_sets + 1 ELSE home_sets
             /\ away_sets' = IF sr.winner = "home" THEN away_sets ELSE away_sets + 1
             /\ home_strength' = ApplyFatigueOptimized(home_strength, sr.duration)
             /\ away_strength' = ApplyFatigueOptimized(away_strength, sr.duration)
             \* away_strength is the dict the cache holds: updated in place
             /\ strength_cache' =
                  [strength_cache EXCEPT
                     ![away_team] = ApplyFatigueOptimized(away_strength, sr.duration)]
    /\ set_num' = set_num + 1
    /\ pc' = "match_loop"
    /\ UNCHANGED <<sim, rng, seed, run, first_result, target_points, home_points,
                   away_points, serving_team, rally_count, match_result>>
    /\ UNCHANGED <<callVars, MOMENTUM_FACTOR>>
    /\ UNCHANGED otherVars

\* simulate_match after the set loop
OptimizedReturn ==
    /\ sim = "optimized" /\ pc = "match_loop"
    /\ MatchLoopOver(set_num, home_sets, away_sets)
    /\ match_result' = OptimizedMatchResult(home_sets, away_sets, sets_results)
    /\ pc' = "done"
    /\ UNCHANGED <<sim, rng, seed, run, first_result, home_strength, away_strength,
                   set_num, home_sets, away_sets, sets_results, target_points,
                   home_points, away_points, serving_team, rally_count, set_result>>
    /\ UNCHANGED <<callVars, strength_cache, MOMENTUM_FACTOR>>
    /\ UNCHANGED otherVars

\* a second, fresh OptimizedVolleyballSimulator(seed) is built with the seed
\* of the first, whose MatchResult is kept for comparison
SecondRun ==
    /\ sim = "optimized" /\ pc = "done" /\ run = 1
    /\ first_result' = match_result
    /\ run' = 2
    /\ rng' = RandomInit(seed)
    /\ pc' = "idle"
    /\ match_result' = NoResult
    /\ set_result' = NoResult
    /\ strength_cache' = EmptyCache
    /\ UNCHANGED <<sim, seed, home_strength, away_strength, set_num, home_sets,
                   away_sets, sets_results, target_points, home_points, away_points,
                   serving_team, rally_count>>
    /\ UNCHANGED <<callVars, MOMENTUM_FACTOR>>
    /\ UNCHANGED otherVars

\* simulate_match has returned and is called again on the same simulator,
\* with the two teams in either role
OptimizedNextMatch ==
    /\ sim = "optimized" /\ pc = "done"
    /\ matches_played + 1 < MaxMatches
    /\ matches_played' = matches_played + 1
    /\ \E h, a \in TeamKeys :
          /\ h # a
          /\ home_team' = h /\ away_team' = a
    /\ pc' = "idle"
    /\ match_result' = NoResult
    /\ set_result' = NoResult
    /\ UNCHANGED <<sim, rng, seed, run, first_result, strength_cache, home_strength,
                   away_strength, set_num, home_sets, away_sets, sets_results,
                   target_points, home_points, away_points, serving_team, rally_count>>
    /\ UNCHANGED MOMENTUM_FACTOR
    /\ UNCHANGED otherVars

(***************************************************************************)
(* Initial states and specifications of the match simulation.              *)
(***************************************************************************)
IdleRally == [pc |-> "idle"]

IdleSched == [pc |-> "idle"]

IdleSeason == [pc |-> "idle"]

IdleCalc == [pc |-> "idle"]

InitMatchVars(s, sd) ==
    /\ sim = s /\ pc = "idle" /\ seed = sd /\ rng = RandomInit(sd)
    /\ run = 1 /\ first_result = NoResult
    /\ home_team = "team_1" /\ away_team = "team_2"
    /\ matches_played = 0 /\ strength_cache = EmptyCache
    /\ MOMENTUM_FACTOR = 0
    /\ home_strength = BaselineStrength /\ away_strength = BaselineStrength
    /\ set_num = 0 /\ home_sets = 0 /\ away_sets = 0 /\ sets_results = <<>>
    /\ target_points = SET_TARGET_POINTS /\ home_points = 0 /\ away_points = 0
    /\ serving_team = "home" /\ rally_count = 0
    /\ set_result = NoResult /\ match_result = NoResult

\* VolleyballSimulator() or OptimizedVolleyballSimulator(), unseeded
Init ==
    /\ \E s \in {"detailed", "optimized"} : InitMatchVars(s, NoSeed)
    /\ rally = IdleRally /\ sched = IdleSched /\ season = IdleSeason
    /\ calc = IdleCalc

Next ==
    \/ DetailedSimulateMatch
    \/ DetailedBeginSet
    \/ DetailedRally
    \/ DetailedEndSet
    \/ DetailedReturn
    \/ OptimizedSimulateMatch
    \/ OptimizedBeginSet
    \/ OptimizedRally
    \/ OptimizedEndSet
    \/ OptimizedReturn

Spec == Init /\ [][Next]_vars

\* OptimizedVolleyballSimulator(seed), twice
InitReplay ==
    /\ \E sd \in Seeds : InitMatchVars("optimized", sd)
    /\ rally = IdleRally /\ sched = IdleSched /\ season = IdleSeason
    /\ calc = IdleCalc

NextReplay ==
    \/ OptimizedSimulateMatch
    \/ OptimizedBeginSet
    \/ OptimizedRally
    \/ OptimizedEndSet
    \/ OptimizedReturn
    \/ SecondRun

SpecReplay == InitReplay /\ [][NextReplay]_vars

\* one OptimizedVolleyballSimulator(seed), simulate_match called MaxMatches times
NextCache ==
    \/ OptimizedSimulateMatch
    \/ OptimizedBeginSet
    \/ OptimizedRally
    \/ OptimizedEndSet
    \/ OptimizedReturn
    \/ OptimizedNextMatch

SpecCache == InitReplay /\ [][NextCache]_vars

(***************************************************************************)
(* VolleyballSimulator._simulate_rally, one random draw at a time, for     *)
(* strength vectors of empty rosters (the 50.0 baseline) and of rosters    *)
(* played with intensity 0 (all zero), at any value of MOMENTUM_FACTOR.    *)
(* rally.ret names the return statement taken: "serve", "attack" or        *)
(* "forced" (the one after the loop), or the exception raised.             *)
(***************************************************************************)
matchIdle == UNCHANGED <<matchVars, sched, season, calc>>

\* the call, the serve and what follows it up to the loop
RallyServe ==
    /\ rally.pc = "call"
    /\ \E d \in ServeDraws :
         LET o == SimulateServe(d, rally.serving_team)
         IN  rally' = [rally EXCEPT
                         !.events = Append(@, o.event),
                         !.pc = IF o.rally_ends THEN "returned" ELSE "loop",
                         !.ret = IF o.rally_ends THEN "serve" ELSE @,
                         !.winner = o.winner,
                         !.attacking_team = Other(rally.serving_team)]
    /\ matchIdle

\* one iteration of the attack/defense loop; the division of
\* _simulate_attack raises ZeroDivisionError when its divisor is 0
RallyAttack ==
    /\ rally.pc = "loop"
    /\ RallyLoopGuard(TRUE, rally.touches)
    /\ LET attack_str  == IF rally.attacking_team = "home"
                          THEN rally.home_strength ELSE rally.away_strength
           defense_str == IF rally.attacking_team = "home"
                          THEN rally.away_strength ELSE rally.home_strength
       IN  IF AttackDivisor(attack_str, defense_str, rally.attacking_team,
                            rally.MOMENTUM_FACTOR) = 0
           THEN rally' = [rally EXCEPT !.pc = "raised", !.ret = "ZeroDivisionError"]
           ELSE \E d \in AttackDraws :
                  LET o == SimulateAttack(d, rally.attacking_team)
                  IN  rally' = [rally EXCEPT
                                  !.events = Append(@, o.event),
                                  !.pc = IF o.rally_ends THEN "returned" ELSE "loop",
                                  !.ret = IF o.rally_ends THEN "attack" ELSE @,
                                  !.winner = o.winner,
                                  !.attacking_team = IF o.rally_ends THEN @ ELSE Other(@),
                                  !.touches = IF o.rally_ends THEN @ ELSE @ + 1]
    /\ matchIdle

\* the loop is left by its guard: winner=random.choice(['home', 'away'])
RallyForced ==
    /\ rally.pc = "loop"
    /\ ~RallyLoopGuard(TRUE, rally.touches)
    /\ \E w \in Teams :
         rally' = [rally EXCEPT !.pc = "returned", !.ret = "forced", !.winner = w]
    /\ matchIdle

InitRally ==
    /\ InitMatchVars("none", NoSeed)
    /\ \E st \in Teams, hs, as \in {ZeroStrength, BaselineStrength},
          m \in MomentumValues :
         rally = [pc |-> "call", serving_team |-> st, attacking_team |-> "none",
                  touches |-> 0, events |-> <<>>, winner |-> "none", ret |-> "none",
                  home_strength |-> hs, away_strength |-> as,
                  MOMENTUM_FACTOR |-> m]
    /\ sched = IdleSched /\ season = IdleSeason /\ calc = IdleCalc

NextRally ==
    \/ RallyServe
    \/ RallyAttack
    \/ RallyForced

SpecRally == InitRally /\ [][NextRally]_vars

(***************************************************************************)
(* SeasonManager._schedule_league_matches.  A participant is its clubId, a *)
(* saved match its homeClubId, awayClubId and matchDay (competitionId,     *)
(* seasonId and status are the same in every match of one call).           *)
(* save_scheduled_match succeeds here: the persistence sink is reliable.   *)
(***************************************************************************)
\* club_ids with repetition, and lists of distinct clubs in every order
ParticipantLists ==
    UNION { [1..n -> 1..DupClubs] \cup Permutations(1..n) : n \in 0..MaxClubs }

RotateNothing(club_ids) == club_ids

\* club_ids = [club_ids[0]] + [club_ids[-1]] + club_ids[1:-1]
Rotate(club_ids) ==
    <<club_ids[1]>> \o <<club_ids[Len(club_ids)]>>
        \o SubSeq(club_ids, 2, Len(club_ids) - 1)

SavesAnyFixture(home_club_id, away_club_id) == TRUE

\* `if home_club_id != away_club_id`
SavesFixture(home_club_id, away_club_id) == home_club_id # away_club_id

HomeAwayNeighbours(round_num, club_ids, home_idx, away_idx) ==
    <<club_ids[home_idx + 1], club_ids[((home_idx + 1) % Len(club_ids)) + 1]>>

HomeIsAlwaysLowIndex(round_num, club_ids, home_idx, away_idx) ==
    <<club_ids[home_idx + 1], club_ids[away_idx + 1]>>

\* the home and the away club of one pairing: swapped in odd rounds
HomeAway(round_num, club_ids, home_idx, away_idx) ==
    IF round_num % 2 = 0
    THEN <<club_ids[home_idx + 1], club_ids[away_idx + 1]>>
    ELSE <<club_ids[away_idx + 1], club_ids[home_idx + 1]>>

\* the matches saved by `for match_num in range(matches_per_round)`, from
\* match_num on
RECURSIVE RoundFixtures(_, _, _, _, _)
RoundFixtures(club_ids, round_num, match_day, matches_per_round, match_num) ==
    IF match_num >= matches_per_round
    THEN <<>>
    ELSE LET home_idx == match_num
             away_idx == Len(club_ids) - 1 - match_num
             ha       == HomeAway(round_num, club_ids, home_idx, away_idx)
             rest     == RoundFixtures(club_ids, round_num, match_day,
                                       matches_per_round, match_num + 1)
         IN  IF SavesFixture(ha[1], ha[2])
             THEN <<[homeClubId |-> ha[1], awayClubId |-> ha[2],
                     matchDay |-> match_day]>> \o rest
             ELSE rest

schedIdle == UNCHANGED <<matchVars, rally, season, calc>>

\* the call, up to the loop over the rounds
ScheduleCall ==
    /\ sched.pc = "call"
    /\ IF Len(sched.participants) < 2
       THEN sched' = [sched EXCEPT !.pc = "returned"]
       ELSE sched' = [sched EXCEPT
                        !.pc = "rounds",
                        !.club_ids = sched.participants,
                        !.match_day = 1,
                        !.matches_per_round = Len(sched.participants) \div 2,
                        !.total_rounds = (Len(sched.participants) - 1) * 2,
                        !.round_num = 0]
    /\ schedIdle

\* one pass of `for round_num in range(total_rounds)`
ScheduleRound ==
    /\ sched.pc = "rounds"
    /\ sched.round_num < sched.total_rounds
    /\ sched' = [sched EXCEPT
                   !.matches = @ \o RoundFixtures(sched.club_ids, sched.round_num,
                                                  sched.match_day,
                                                  sched.matches_per_round, 0),
                   !.club_ids = Rotate(@),
                   !.match_day = @ + 1,
                   !.round_num = @ + 1]
    /\ schedIdle

\* the loop over the rounds is over
ScheduleReturn ==
    /\ sched.pc = "rounds"
    /\ sched.round_num >= sched.total_rounds
    /\ sched' = [sched EXCEPT !.pc = "returned"]
    /\ schedIdle

InitSchedule ==
    /\ InitMatchVars("none", NoSeed)
    /\ rally = IdleRally /\ season = IdleSeason /\ calc = IdleCalc
    /\ \E ps \in ParticipantLists :
         sched = [pc |-> "call", participants |-> ps, club_ids |-> <<>>,
                  match_day |-> 0, matches_per_round |-> 0, total_rounds |-> 0,
                  round_num |-> 0, matches |-> <<>>]

NextSchedule ==
    \/ ScheduleCall
    \/ ScheduleRound
    \/ ScheduleReturn

SpecSchedule == InitSchedule /\ [][NextSchedule]_vars

(***************************************************************************)
(* SeasonManager.create_season.  The club enumerator holds, for each of    *)
(* the countries of ValidPool, season.db_clubs.elite clubs in division 1,  *)
(* .second clubs in division 2 and .amateur clubs in division 10.  Ids     *)
(* made by uuid4 are counted up.  A write of the persistence sink may      *)
(* fail: create_season_object and create_competition_object then return    *)
(* False, save_scheduled_match raises.                                     *)
(***************************************************************************)
\* the keys of COUNTRIES
Countries ==
    {"volcania", "coastalia", "forestland", "desertia", "northlands", "islandia",
     "plainscountry", "stonehills", "riverside", "windlands", "sunlands",
     "mistcountry"}

\* list(COUNTRIES.keys())
AllCountries ==
    <<"volcania", "coastalia", "forestland", "desertia", "northlands", "islandia",
      "plainscountry", "stonehills", "riverside", "windlands", "sunlands",
      "mistcountry">>

ValidPool == {"volcania", "coastalia"}

InvalidPool == {"atlantis", "Volcania"}

\* the participating_countries argument: None, or a list of identifiers
CountryArguments ==
    {[is_none |-> TRUE, list |-> <<>>]} \cup
    {[is_none |-> FALSE, list |-> l] :
        l \in UNION {[1..n -> ValidPool \cup InvalidPool] : n \in 0..MaxCountryList}}

InvalidCountriesNone(participating_countries) == <<>>

\* invalid_countries = [c for c in participating_countries if c not in COUNTRIES]
InvalidCountries(participating_countries) ==
    SelectSeq(participating_countries, LAMBDA c : c \notin Countries)

\* get_clubs_by_country_and_tier: the clubs' ids
ClubsByCountryAndTier(db, country_id, tier) ==
    LET n == IF country_id \notin ValidPool THEN 0
             ELSE IF tier = 1 THEN db.elite
             ELSE IF tier = 2 THEN db.second
             ELSE IF tier = 10 THEN db.amateur
             ELSE 0
    IN  [k \in 1..n |-> <<country_id, tier, k>>]

\* a Competition as the scheduler reads it back: type, season, participants
Competition(type, country_id, tier, clubs) ==
    [type |-> type, seasonId |-> "season", countryId |-> country_id,
     divisionTier |-> tier, participants |-> clubs]

\* the leagues _schedule_domestic_competitions builds for tiers tier..19
RECURSIVE DomesticLeagues(_, _, _)
DomesticLeagues(db, country_id, tier) ==
    IF tier > TOTAL_DIVISIONS
    THEN <<>>
    ELSE LET clubs == ClubsByCountryAndTier(db, country_id, tier)
             rest  == DomesticLeagues(db, country_id, tier + 1)
         IN  IF clubs = <<>>
             THEN rest
             ELSE <<Competition("domestic_league", country_id, tier, clubs)>> \o rest

\* all_clubs of _create_national_cup, for tiers tier..19
RECURSIVE AllClubs(_, _, _)
AllClubs(db, country_id, tier) ==
    IF tier > TOTAL_DIVISIONS
    THEN <<>>
    ELSE ClubsByCountryAndTier(db, country_id, tier)
            \o AllClubs(db, country_id, tier + 1)

\* the competition _create_national_cup builds, if any
NationalCup(db, country_id) ==
    LET all_clubs == AllClubs(db, country_id, 1)
    IN  IF all_clubs = <<>>
        THEN <<>>
        ELSE <<Competition("domestic_cup", country_id, 0, all_clubs)>>

\* elite_clubs / professional_clubs: the clubs of one tier over the countries
RECURSIVE TierClubs(_, _, _)
TierClubs(db, countries, tier) ==
    IF countries = <<>>
    THEN <<>>
    ELSE ClubsByCountryAndTier(db, Head(countries), tier)
            \o TierClubs(db, Tail(countries), tier)

\* amateur_clubs: clubs[0] of tier 10 of each country that has one
RECURSIVE AmateurClubs(_, _)
AmateurClubs(db, countries) ==
    IF countries = <<>>
    THEN <<>>
    ELSE LET clubs == ClubsByCountryAndTier(db, Head(countries), 10)
         IN  (IF clubs = <<>> THEN <<>> ELSE <<clubs[1]>>)
                \o AmateurClubs(db, Tail(countries))

\* one continental competition, if it has participants
Continental(type, clubs) ==
    IF clubs = <<>> THEN <<>> ELSE <<Competition(type, "", 0, clubs)>>

\* the competitions _schedule_continental_competitions builds
ContinentalCompetitions(db, countries) ==
    Continental("continental_champions", TierClubs(db, countries, 1))
        \o Continental("continental_cup", TierClubs(db, countries, 2))
        \o Continental("continental_cup", AmateurClubs(db, countries))

\* every match _schedule_league_matches saves for club_ids, from round_num on
RECURSIVE LeagueFixtures(_, _, _)
LeagueFixtures(club_ids, round_num, total_rounds) ==
    IF round_num >= total_rounds
    THEN <<>>
    ELSE RoundFixtures(club_ids, round_num, round_num + 1, Len(club_ids) \div 2, 0)
            \o LeagueFixtures(Rotate(club_ids), round_num + 1, total_rounds)

LeagueMatchesLoneClubAtHome(participants) ==
    IF Len(participants) = 1
    THEN <<[homeClubId |-> participants[1], awayClubId |-> participants[1],
            matchDay |-> 1]>>
    ELSE LeagueFixtures(participants, 0, (Len(participants) - 1) * 2)

\* the matches of one league competition
LeagueMatches(participants) ==
    IF Len(participants) < 2
    THEN <<>>
    ELSE LeagueFixtures(participants, 0, (Len(participants) - 1) * 2)

\* match_data of the fixtures of the competition stored at place
\* competition_id of the competitions collection
MatchData(fixtures, competition_id) ==
    [i \in 1..Len(fixtures) |->
        [homeClubId |-> fixtures[i].homeClubId, awayClubId |-> fixtures[i].awayClubId,
         matchDay |-> fixtures[i].matchDay, competitionId |-> competition_id]]

\* the elements of `attempted` whose write did not fail
Written(attempted, failed) ==
    LET Keep[i \in 0..Len(attempted)] ==
            IF i = 0 THEN <<>>
            ELSE IF i \in failed THEN Keep[i - 1]
            ELSE Append(Keep[i - 1], attempted[i])
    IN  Keep[Len(attempted)]

\* the sets of writes that may fail among `attempted`
FailureChoices(attempted, budget) ==
    {f \in SUBSET (1..Len(attempted)) : Cardinality(f) <= budget}

SeasonResultSuccess(success, competitions_created, countries, message) ==
    [success |-> TRUE, season_id |-> "season",
     competitions_created |-> competitions_created,
     participating_countries |-> countries, message |-> message]

SeasonResult(success, competitions_created, countries, message) ==
    [success |-> success, season_id |-> IF success THEN "season" ELSE "",
     competitions_created |-> competitions_created,
     participating_countries |-> countries, message |-> message]

seasonIdle == UNCHANGED <<matchVars, rally, sched, calc>>

\* create_season up to the validation of participating_countries
SeasonValidate ==
    /\ season.pc = "call"
    /\ LET countries == IF season.argument.is_none THEN AllCountries
                        ELSE season.argument.list
           invalid_countries == InvalidCountries(countries)
       IN  IF invalid_countries # <<>>
           THEN season' = [season EXCEPT
                             !.pc = "returned",
                             !.result = SeasonResult(FALSE, 0, <<>>,
                                          [text |-> "Invalid countries",
                                           ids |-> invalid_countries])]
           ELSE season' = [season EXCEPT
                             !.pc = "save_season",
                             !.participating_countries = countries]
    /\ seasonIdle

\* the Season record is built and written
SeasonCreate ==
    /\ season.pc = "save_season"
    /\ \E season_saved \in BOOLEAN :
         /\ ~season_saved => season.failures < MaxFailures
         /\ IF season_saved
            THEN season' = [season EXCEPT
                              !.pc = "domestic",
                              !.db_seasons = @ + 1,
                              !.country_idx = 1,
                              !.competitions_created = 0]
            ELSE season' = [season EXCEPT
                              !.pc = "returned",
                              !.failures = @ + 1,
                              !.result = SeasonResult(FALSE, 0, <<>>,
                                           [text |-> "Failed to create season in database",
                                            ids |-> <<>>])]
    /\ seasonIdle

\* one pass of `for country_id in participating_countries`:
\* _schedule_domestic_competitions
SeasonDomestic ==
    /\ season.pc = "domestic"
    /\ season.country_idx <= Len(season.participating_countries)
    /\ LET country_id == season.participating_countries[season.country_idx]
           attempted  == DomesticLeagues(season.db_clubs, country_id, 1)
                            \o NationalCup(season.db_clubs, country_id)
       IN  \E failed \in FailureChoices(attempted, MaxFailures - season.failures) :
              LET competitions == Written(attempted, failed)
              IN  season' = [season EXCEPT
                               !.db_competitions = @ \o competitions,
                               !.write_attempts = @ + Len(attempted),
                               !.failures = @ + Cardinality(failed),
                               !.lookups = @ + 2 * TOTAL_DIVISIONS,
                               !.competitions_created = @ + Len(competitions),
                               !.country_idx = @ + 1]
    /\ seasonIdle

\* _schedule_continental_competitions
SeasonContinental ==
    /\ season.pc = "domestic"
    /\ season.country_idx > Len(season.participating_countries)
    /\ LET attempted == ContinentalCompetitions(season.db_clubs,
                                                season.participating_countries)
       IN  \E failed \in FailureChoices(attempted, MaxFailures - season.failures) :
              LET competitions == Written(attempted, failed)
              IN  season' = [season EXCEPT
                               !.pc = "schedule",
                               !.db_competitions = @ \o competitions,
                               !.write_attempts = @ + Len(attempted),
                               !.failures = @ + Cardinality(failed),
                               !.lookups = @ + 3 * Len(season.participating_countries),
                               !.competitions_created = @ + Len(competitions),
                               !.competition_idx = 1]
    /\ seasonIdle

\* one pass of `for competition in season_competitions` of
\* _schedule_matches_for_season: _schedule_league_matches for a league; the
\* first `saved` matches are saved, and a failing save ends the call
SeasonScheduleCompetition ==
    /\ season.pc = "schedule"
    /\ season.competition_idx <= Len(season.db_competitions)
    /\ LET competition == season.db_competitions[season.competition_idx]
           fixtures == IF competition.type = "domestic_league"
                       THEN MatchData(LeagueMatches(competition.participants),
                                      season.competition_idx)
                       ELSE <<>>
       IN  \E saved \in 0..Len(fixtures) :
              /\ saved < Len(fixtures) => season.failures < MaxFailures
              /\ season' = [season EXCEPT
                              !.db_matches = @ \o SubSeq(fixtures, 1, saved),
                              !.failures = IF saved < Len(fixtures) THEN @ + 1 ELSE @,
                              !.competition_idx = @ + 1]
    /\ seasonIdle

\* create_season returns success
SeasonReturn ==
    /\ season.pc = "schedule"
    /\ season.competition_idx > Len(season.db_competitions)
    /\ season' = [season EXCEPT
                    !.pc = "returned",
                    !.result = SeasonResult(TRUE, season.competitions_created,
                                            season.participating_countries,
                                            [text |-> "created successfully",
                                             ids |-> <<>>])]
    /\ seasonIdle

InitSeason ==
    /\ InitMatchVars("none", NoSeed)
    /\ rally = IdleRally /\ sched = IdleSched /\ calc = IdleCalc
    /\ \E arg \in CountryArguments, elite \in 0..MaxTierClubs,
          second \in 0..1, amateur \in 0..1 :
         season = [pc |-> "call", argument |-> arg,
                   db_clubs |-> [elite |-> elite, second |-> second,
                                 amateur |-> amateur],
                   participating_countries |-> <<>>,
                   db_seasons |-> 0, db_competitions |-> <<>>, db_matches |-> <<>>,
                   write_attempts |-> 0, failures |-> 0, lookups |-> 0,
                   competitions_created |-> 0, country_idx |-> 0,
                   competition_idx |-> 0, result |-> NoResult]

NextSeason ==
    \/ SeasonValidate
    \/ SeasonCreate
    \/ SeasonDomestic
    \/ SeasonContinental
    \/ SeasonScheduleCompetition
    \/ SeasonReturn

SpecSeason == InitSeason /\ [][NextSeason]_vars

(***************************************************************************)
(* The calculations of VolleyballSimulator that draw no random number:     *)
(* _calculate_team_strength, _calculate_revenue, _compile_match_stats.     *)
(* calc holds one call: the function, its arguments and, once it has       *)
(* returned, its result.  A dict key that may be missing has a has_ flag.  *)
(* Strengths are fixed-point (Unit = 1.0, quotients truncated), formation  *)
(* bonuses and intensity are in hundredths.                                *)
(***************************************************************************)
\* the attributes _calculate_team_strength reads; p.get(..).get(name, 50)
Player(spikePower, spikeAccuracy, blockTiming, passingAccuracy, servePower, serveAccuracy) ==
    [spikePower |-> spikePower, spikeAccuracy |-> spikeAccuracy,
     blockTiming |-> blockTiming, passingAccuracy |-> passingAccuracy,
     servePower |-> servePower, serveAccuracy |-> serveAccuracy]

\* a player without attributes (every attribute defaults to 50), a strong
\* and a weak player
PlayerPool ==
    {Player(50, 50, 50, 50, 50, 50), Player(90, 80, 60, 70, 85, 75),
     Player(20, 35, 40, 10, 0, 30)}

\* team dicts: without the key 'players', or with a list of players
TeamArguments ==
    {[has_players |-> FALSE, players |-> <<>>]} \cup
    {[has_players |-> TRUE, players |-> ps] :
        ps \in UNION {[1..n -> PlayerPool] : n \in 0..MaxRoster}}

\* tactics dicts: 'formation' and 'intensity' present or not
TacticsArguments ==
    {[has_formation |-> TRUE, formation |-> f, has_intensity |-> TRUE, intensity |-> i] :
        f \in {"6-2", "5-1", "4-2", "3-3"}, i \in {0, 50, 100, 125}} \cup
    {[has_formation |-> FALSE, formation |-> "", has_intensity |-> TRUE, intensity |-> i] :
        i \in {0, 50, 100, 125}} \cup
    {[has_formation |-> TRUE, formation |-> f, has_intensity |-> FALSE, intensity |-> 0] :
        f \in {"6-2", "5-1", "4-2", "3-3"}} \cup
    {[has_formation |-> FALSE, formation |-> "", has_intensity |-> FALSE, intensity |-> 0]}

\* _get_formation_bonus
FormationBonus(formation) ==
    CASE formation = "6-2" -> [attack |-> 110, defense |-> 95]
      [] formation = "5-1" -> [attack |-> 100, defense |-> 100]
      [] formation = "4-2" -> [attack |-> 90, defense |-> 105]
      [] OTHER -> [attack |-> 100, defense |-> 100]

\* sum(...) over a list of numbers
SeqSum(xs) ==
    LET S[i \in 0..Len(xs)] == IF i = 0 THEN 0 ELSE S[i - 1] + xs[i]
    IN  S[Len(xs)]

CalculateTeamStrengthScaledBaseline(team, tactics) ==
    [k \in StrengthKeys |->
        (50 * Unit * (IF tactics.has_intensity THEN tactics.intensity ELSE 100))
            \div 100]

\* _calculate_team_strength
CalculateTeamStrength(team, tactics) ==
    LET players == IF team.has_players THEN team.players ELSE <<>>
        n == Len(players)
        total_attack ==
            (SeqSum([i \in 1..n |-> players[i].spikePower + players[i].spikeAccuracy])
                * Unit) \div (2 * n)
        total_defense ==
            (SeqSum([i \in 1..n |-> players[i].blockTiming + players[i].passingAccuracy])
                * Unit) \div (2 * n)
        total_serve ==
            (SeqSum([i \in 1..n |-> players[i].servePower + players[i].serveAccuracy])
                * Unit) \div (2 * n)
        total_receive ==
            (SeqSum([i \in 1..n |-> players[i].passingAccuracy]) * Unit) \div n
        formation_bonus ==
            FormationBonus(IF tactics.has_formation THEN tactics.formation ELSE "5-1")
        intensity == IF tactics.has_intensity THEN tactics.intensity ELSE 100
    IN  IF players = <<>>
        THEN BaselineStrength
        ELSE [overall |-> (((total_attack + total_defense + total_serve
                              + total_receive) \div 4) * intensity) \div 100,
              attack  |-> (((total_attack * formation_bonus.attack) \div 100)
                              * intensity) \div 100,
              defense |-> (((total_defense * formation_bonus.defense) \div 100)
                              * intensity) \div 100,
              serve   |-> (total_serve * intensity) \div 100,
              receive |-> (total_receive * intensity) \div 100]

\* the 'club' dict of home_team: with or without 'divisionTier'
ClubArguments ==
    {[has_tier |-> FALSE, divisionTier |-> 0]} \cup
    {[has_tier |-> TRUE, divisionTier |-> t] : t \in 1..MaxTier}

BaseTicketPriceNoFloor(division_tier) == 50 - division_tier * 3

\* base_ticket_price = max(5, 50 - (division_tier * 3))
BaseTicketPrice(division_tier) == Max(5, 50 - division_tier * 3)

\* _calculate_revenue; int(tickets * 0.3) and int(tickets * 0.1) truncate
CalculateRevenue(home_club, attendance) ==
    LET division_tier == IF home_club.has_tier THEN home_club.divisionTier ELSE 10
        tickets == attendance * BaseTicketPrice(division_tier)
        concessions == (tickets * 3) \div 10
        merchandise == tickets \div 10
    IN  [tickets |-> tickets, concessions |-> concessions,
         merchandise |-> merchandise,
         total |-> tickets + concessions + merchandise]

\* the event logs of the rallies of at most MaxRallyLog events
RallyLogs ==
    {r.events : r \in {x \in SimulateRally("home") \cup SimulateRally("away") :
                          Len(x.events) <= MaxRallyLog}}

\* sets_results: of every set, its 'events'
StatsArguments ==
    UNION {[1..n -> {[events |-> log] : log \in RallyLogs}] : n \in 1..MaxStatSets}

\* {'kills': 0, 'blocks': 0, 'aces': 0, 'errors': 0}
ZeroStats == [kills |-> 0, blocks |-> 0, aces |-> 0, errors |-> 0]

CountEventDigsAsErrors(stats, event) ==
    CASE event.type = "attack_kill" -> [stats EXCEPT !.kills = @ + 1]
      [] event.type = "block_point" -> [stats EXCEPT !.blocks = @ + 1]
      [] event.type = "serve_ace" -> [stats EXCEPT !.aces = @ + 1]
      [] OTHER -> [stats EXCEPT !.errors = @ + 1]

\* the if/elif chain on event_type, applied to one side's stats
CountEvent(stats, event) ==
    CASE event.type = "attack_kill" -> [stats EXCEPT !.kills = @ + 1]
      [] event.type = "block_point" -> [stats EXCEPT !.blocks = @ + 1]
      [] event.type = "serve_ace" -> [stats EXCEPT !.aces = @ + 1]
      [] event.type \in {"serve_error", "attack_error"} ->
           [stats EXCEPT !.errors = @ + 1]
      [] OTHER -> stats

\* the body of `for event in set_result.get('events', [])`
StatsAfterEvent(match_stats, event) ==
    IF event.team = "home"
    THEN [match_stats EXCEPT !.home = CountEvent(@, event)]
    ELSE [match_stats EXCEPT !.away = CountEvent(@, event)]

\* the inner loop over the events of one set
StatsAfterSet(match_stats, events) ==
    LET S[i \in 0..Len(events)] ==
            IF i = 0 THEN match_stats ELSE StatsAfterEvent(S[i - 1], events[i])
    IN  S[Len(events)]

\* _compile_match_stats
CompileMatchStats(sets_results_) ==
    LET S[i \in 0..Len(sets_results_)] ==
            IF i = 0 THEN [home |-> ZeroStats, away |-> ZeroStats]
            ELSE StatsAfterSet(S[i - 1], sets_results_[i].events)
    IN  S[Len(sets_results_)]

calcIdle == UNCHANGED <<matchVars, rally, sched, season>>

\* one call of `fn` with `args`
CalcCall(fn, args) == [pc |-> "call", fn |-> fn, args |-> args, result |-> NoResult]

CalcTeamStrength ==
    /\ calc.pc = "call" /\ calc.fn = "_calculate_team_strength"
    /\ calc' = [calc EXCEPT
                  !.pc = "returned",
                  !.result = CalculateTeamStrength(calc.args.team, calc.args.tactics)]
    /\ calcIdle

CalcRevenue ==
    /\ calc.pc = "call" /\ calc.fn = "_calculate_revenue"
    /\ calc' = [calc EXCEPT
                  !.pc = "returned",
                  !.result = CalculateRevenue(calc.args.club, calc.args.attendance)]
    /\ calcIdle

CalcMatchStats ==
    /\ calc.pc = "call" /\ calc.fn = "_compile_match_stats"
    /\ calc' = [calc EXCEPT
                  !.pc = "returned",
                  !.result = CompileMatchStats(calc.args.sets_results)]
    /\ calcIdle

InitCalc ==
    /\ InitMatchVars("none", NoSeed)
    /\ rally = IdleRally /\ sched = IdleSched /\ season = IdleSeason
    /\ \/ \E team \in TeamArguments, tactics \in TacticsArguments :
             calc = CalcCall("_calculate_team_strength",
                             [team |-> team, tactics |-> tactics])
       \/ \E club \in ClubArguments, attendance \in 0..MaxAttendance :
             calc = CalcCall("_calculate_revenue",
                             [club |-> club, attendance |-> attendance])
       \/ \E sets \in StatsArguments :
             calc = CalcCall("_compile_match_stats", [sets_results |-> sets])

NextCalc ==
    \/ CalcTeamStrength
    \/ CalcRevenue
    \/ CalcMatchStats

SpecCalc == InitCalc /\ [][NextCalc]_vars

(***************************************************************************)
(* Properties of the match simulation.                                     *)
(***************************************************************************)
Abs(x) == IF x < 0 THEN 0 - x ELSE x

SetReturned == set_result # NoResult

\* the points of the recorded winner of a returned set
WinnerPoints(sr) == IF sr.winner = "home" THEN sr.home_points ELSE sr.away_points

LoserPoints(sr) == IF sr.winner = "home" THEN sr.away_points ELSE sr.home_points

\* C1: every set _simulate_set returns has winner's points >= the target
\* (15 in the fifth set, otherwise 25), a margin of at least 2, and the
\* recorded winner is the side with more points.
C1_SetScoringRules ==
    (sim = "detailed" /\ SetReturned) =>
        /\ WinnerPoints(set_result) >= (IF Len(sets_results) = 5 THEN 15 ELSE 25)
        /\ Abs(set_result.home_points - set_result.away_points) >= 2
        /\ set_result.winner \in Teams
        /\ WinnerPoints(set_result) > LoserPoints(set_result)

\* a fifth set of the detailed simulator won by the away side after deuce
C1_Witness ==
    /\ sim = "detailed" /\ SetReturned
    /\ Len(sets_results) = 5
    /\ set_result.winner = "away"
    /\ set_result.away_points = 19 /\ set_result.home_points = 17

\* C2: every result of simulate_match (both simulators) has
\* max(homeSets, awaySets) = 3 and min <= 2, as many recorded sets as
\* homeSets + awaySets and at most 5, the side with 3 sets as winner; and
\* no set is played once a side has 3 set wins.
C2_BestOfFive ==
    /\ pc = "done" =>
          /\ Max(match_result.homeSets, match_result.awaySets) = 3
          /\ Min(match_result.homeSets, match_result.awaySets) <= 2
          /\ Len(match_result.sets) = match_result.homeSets + match_result.awaySets
          /\ Len(match_result.sets) <= 5
          /\ match_result.winner =
                (IF match_result.homeSets = 3 THEN "home" ELSE "away")
          /\ Cardinality({i \in 1..Len(match_result.sets) :
                             match_result.sets[i].winner = "home"})
                = match_result.homeSets
    /\ pc \in {"set_loop", "set_break"} => (home_sets < 3 /\ away_sets < 3)

\* a five-set match of the optimized simulator won 3-2 by the away side
C2_Witness ==
    /\ sim = "optimized" /\ pc = "done"
    /\ match_result.homeSets = 2 /\ match_result.awaySets = 3
    /\ Len(match_result.sets) = 5

\* C21: every set _simulate_set returns ends with the winner's points equal
\* to max(target, loser's points + 2): no point is played once the set is
\* complete, a set never ends at 24-23, and after 24-24 it ends at the
\* first lead of two; inside the loop the set is never complete before the
\* last point.
C21_SetEndsAtFirstCompleteScore ==
    sim = "detailed" =>
        /\ SetReturned =>
              /\ WinnerPoints(set_result)
                    = Max(target_points, LoserPoints(set_result) + 2)
              /\ ~(WinnerPoints(set_result) = 24 /\ LoserPoints(set_result) = 23)
              /\ LoserPoints(set_result) >= 24 =>
                    WinnerPoints(set_result) - LoserPoints(set_result) = 2
        /\ pc = "set_loop" =>
              /\ Max(home_points, away_points)
                    <= Max(target_points, Min(home_points, away_points) + 2)
              /\ (home_points = 24 /\ away_points = 23) =>
                    ~IsSetComplete(home_points, away_points, target_points)

\* a set of the detailed simulator that went through 24-24 and ended 27-25
C21_Witness ==
    /\ sim = "detailed" /\ SetReturned
    /\ target_points = 25
    /\ set_result.winner = "home"
    /\ set_result.home_points = 27 /\ set_result.away_points = 25

\* C24: within a set of the detailed simulator the side serving the next
\* rally is the side that won the rally just played; the server changes
\* only that way or by the random choice at the start of a set.
C24_WinnerServesNext ==
    [][sim = "detailed" =>
         /\ (pc = "set_loop" /\ home_points' = home_points + 1) =>
                serving_team' = "home"
         /\ (pc = "set_loop" /\ away_points' = away_points + 1) =>
                serving_team' = "away"
         /\ serving_team' # serving_team =>
                \/ pc = "match_loop" /\ pc' = "set_loop"
                \/ /\ pc = "set_loop"
                   /\ home_points' + away_points' = home_points + away_points + 1]_vars

\* the second set: away served first and won the rally after losing the
\* first one, so the service changed hands twice
C24_Witness ==
    /\ sim = "detailed" /\ pc = "set_loop"
    /\ set_num = 1
    /\ home_points = 1 /\ away_points = 2
    /\ serving_team = "away"

\* C25: the momentum used in a rally of the detailed simulator is determined
\* by the current set's point differential alone, zero at 0-0: the first
\* rally of every set is played with zero momentum.
C25_MomentumFromCurrentSet ==
    (sim = "detailed" /\ pc = "set_loop") =>
        /\ MOMENTUM_FACTOR = UpdateMomentum(home_points, away_points)
        /\ (home_points = 0 /\ away_points = 0) => MOMENTUM_FACTOR = 0

\* C26: after every set the fatigue decay leaves each of the five strength
\* components of each side never higher, strictly lower when it was
\* positive and the set had a positive duration, and never negative, in
\* both simulators.  (The duration of a set of the detailed simulator is
\* half the number of its events, positive once a rally was played.)
C26_FatigueDecay ==
    [][(pc \in {"set_loop", "set_break"} /\ pc' = "match_loop") =>
         LET positive_duration ==
                 IF sim = "detailed"
                 THEN home_points + away_points > 0
                 ELSE set_result'.duration > 0
         IN  \A k \in StrengthKeys :
                /\ home_strength'[k] <= home_strength[k]
                /\ away_strength'[k] <= away_strength[k]
                /\ home_strength'[k] >= 0 /\ away_strength'[k] >= 0
                /\ (positive_duration /\ home_strength[k] > 0) =>
                      home_strength'[k] < home_strength[k]
                /\ (positive_duration /\ away_strength[k] > 0) =>
                      away_strength'[k] < away_strength[k]]_vars

\* C27: before the first set every one of the five components of the home
\* side's strength is 1.05 times the calculated value (multiplied once),
\* and the away side's strength is the calculated value.
C27_HomeAdvantageOnAllComponents ==
    (sim \in {"detailed", "optimized"} /\ pc = "match_loop" /\ set_num = 0) =>
        LET calculated == IF sim = "detailed" THEN BaselineStrength
                          ELSE CachedStrength
        IN  /\ \A k \in StrengthKeys :
                  home_strength[k] = HomeAdvantage(calculated[k])
            /\ away_strength = calculated

\* C5: the 100-rally cap never ends a set of _simulate_set_optimized: every
\* returned set is complete (winner's points >= target, margin >= 2) and
\* its winner has strictly more points than the loser.
C5_CapNeverEndsSet ==
    (sim = "optimized" /\ SetReturned) =>
        /\ WinnerPoints(set_result) >= (IF Len(sets_results) = 5 THEN 15 ELSE 25)
        /\ WinnerPoints(set_result) - LoserPoints(set_result) >= 2

\* C6: both set loops stop within the fixed safety cap of 100 rallies.
C6_RalliesCapped ==
    pc \in {"set_loop", "set_break"} => home_points + away_points <= 100

\* C7: two fresh OptimizedVolleyballSimulator(seed) instances with the same
\* seed and inputs return identical MatchResult values.
C7_SameSeedSameResult ==
    (run = 2 /\ pc = "done") => match_result = first_result

(***************************************************************************)
(* Properties of the rally.                                                *)
(***************************************************************************)
LastEvent(events) == events[Len(events)]

\* C4: _simulate_rally returns a winner in {home, away} after at most 20
\* attack/defense exchanges following the serve (at most 21 events); when
\* the bound is reached without a terminal event the winner is forced by
\* the coin flip and the loop is not entered again.
C4_RallyBounded ==
    /\ rally.pc # "idle" =>
          /\ rally.touches <= 20
          /\ Len(rally.events) <= 21
    /\ rally.pc = "returned" =>
          /\ rally.winner \in Teams
          /\ Len(rally.events) >= 1
          /\ (LastEvent(rally.events).type = "dig_save")
                <=> (rally.ret = "forced")
          /\ rally.ret = "forced" => (rally.touches = 20 /\ Len(rally.events) = 21)

\* twenty digs after the serve: the rally is ended by the coin flip
C4_Witness ==
    /\ rally.pc = "returned" /\ rally.ret = "forced"
    /\ rally.winner = "home" /\ rally.serving_team = "home"
    /\ Len(rally.events) = 21

\* the side attacking when event number i of a rally is appended (i >= 2):
\* the receiver for the first attack, then alternating
AttackerOfEvent(i) ==
    IF i % 2 = 0 THEN Other(rally.serving_team) ELSE rally.serving_team

TerminalEvents ==
    {"serve_ace", "serve_error", "attack_kill", "attack_error", "block_point"}

\* C22: the point winner follows the terminal event (ace: server; serve
\* error: receiver; kill: attacker; block point or attack error: defender);
\* after the reception the receiving side attacks first, and after every
\* dig attacker and defender swap.
C22_WinnerFollowsTerminalEvent ==
    /\ rally.pc = "loop" =>
          /\ rally.attacking_team = AttackerOfEvent(Len(rally.events) + 1)
          /\ rally.touches = 0 => rally.attacking_team = Other(rally.serving_team)
          /\ rally.events[1] = Event("dig_save", Other(rally.serving_team))
          /\ \A i \in 2..Len(rally.events) :
                rally.events[i] = Event("dig_save", Other(AttackerOfEvent(i)))
    /\ rally.pc = "returned" =>
          LET n    == Len(rally.events)
              last == LastEvent(rally.events)
          IN  /\ last.type = "serve_ace" =>
                    (n = 1 /\ rally.winner = rally.serving_team
                           /\ last.team = rally.serving_team)
              /\ last.type = "serve_error" =>
                    (n = 1 /\ rally.winner = Other(rally.serving_team)
                           /\ last.team = rally.serving_team)
              /\ last.type = "attack_kill" =>
                    (n >= 2 /\ rally.winner = AttackerOfEvent(n)
                            /\ last.team = AttackerOfEvent(n))
              /\ last.type = "block_point" =>
                    (n >= 2 /\ rally.winner = Other(AttackerOfEvent(n))
                            /\ last.team = Other(AttackerOfEvent(n)))
              /\ last.type = "attack_error" =>
                    (n >= 2 /\ rally.winner = Other(AttackerOfEvent(n))
                            /\ last.team = AttackerOfEvent(n))
              /\ (last.type \in TerminalEvents /\ n >= 2) =>
                    rally.attacking_team = AttackerOfEvent(n)

\* home serves, away digs and attacks, two more digs, then home blocks away
C22_Witness ==
    /\ rally.pc = "returned"
    /\ rally.serving_team = "home"
    /\ Len(rally.events) = 4
    /\ rally.events[2] = Event("dig_save", "home")
    /\ rally.events[3] = Event("dig_save", "away")
    /\ LastEvent(rally.events) = Event("block_point", "home")
    /\ rally.attacking_team = "away"
    /\ rally.winner = "home"

\* C23: in the event log of every returned rally each event before the last
\* is a DIG_SAVE and the last event is one of the five terminal kinds: a
\* rally never ends on a DIG_SAVE.
C23_RallyEndsOnTerminalEvent ==
    rally.pc = "returned" =>
        /\ \A i \in 1..(Len(rally.events) - 1) : rally.events[i].type = "dig_save"
        /\ LastEvent(rally.events).type \in TerminalEvents

(***************************************************************************)
(* Properties of the league schedule.                                      *)
(***************************************************************************)
AllDistinct(ps) == \A i, j \in 1..Len(ps) : i # j => ps[i] # ps[j]

ClubsOf(ps) == {ps[i] : i \in 1..Len(ps)}

\* the number of saved matches of club `home` at home against `away`
Meetings(home, away) ==
    Cardinality({i \in 1..Len(sched.matches) :
                    /\ sched.matches[i].homeClubId = home
                    /\ sched.matches[i].awayClubId = away})

OnMatchDay(day) ==
    Cardinality({i \in 1..Len(sched.matches) : sched.matches[i].matchDay = day})

HomeMatches(club) ==
    Cardinality({i \in 1..Len(sched.matches) : sched.matches[i].homeClubId = club})

AwayMatches(club) ==
    Cardinality({i \in 1..Len(sched.matches) : sched.matches[i].awayClubId = club})

\* a finished call for a league of an even number (>= 2) of distinct clubs
EvenLeagueScheduled ==
    /\ sched.pc = "returned"
    /\ Len(sched.participants) >= 2
    /\ Len(sched.participants) % 2 = 0
    /\ AllDistinct(sched.participants)

\* C3: for n distinct clubs, n even, exactly 2*(n-1) rounds of n/2 fixtures
\* are emitted and every unordered pair of distinct clubs appears in
\* exactly 2 fixtures, once with each of the two clubs at home.
C3_DoubleRoundRobin ==
    EvenLeagueScheduled =>
        LET n == Len(sched.participants)
        IN  /\ sched.round_num = 2 * (n - 1)
            /\ \A i \in 1..Len(sched.matches) :
                  sched.matches[i].matchDay \in 1..(2 * (n - 1))
            /\ \A day \in 1..(2 * (n - 1)) : OnMatchDay(day) = n \div 2
            /\ \A a, b \in ClubsOf(sched.participants) :
                  a # b => Meetings(a, b) = 1

\* a league of six distinct clubs has its 30 fixtures
C3_Witness ==
    /\ EvenLeagueScheduled
    /\ Len(sched.participants) = 6
    /\ Len(sched.matches) = 30

\* C9: no saved fixture has homeClubId = awayClubId, for any participant
\* list: even or odd length, with or without a repeated clubId.
C9_NoSelfFixture ==
    \A i \in 1..Len(sched.matches) :
        sched.matches[i].homeClubId # sched.matches[i].awayClubId

\* a list of odd length with a repeated clubId, for which pairings of a
\* club with itself were skipped and other matches were saved
C9_Witness ==
    /\ sched.pc = "returned"
    /\ Len(sched.participants) = 5
    /\ ~AllDistinct(sched.participants)
    /\ Len(sched.matches) > 0
    /\ Len(sched.matches) < sched.total_rounds * sched.matches_per_round

\* C10: for n distinct clubs, n even, every club plays exactly 2*(n-1)
\* fixtures, n-1 of them at home and n-1 away.
C10_HomeAwayBalance ==
    EvenLeagueScheduled =>
        LET n == Len(sched.participants)
        IN  /\ Len(sched.matches) = n * (n - 1)
            /\ \A c \in ClubsOf(sched.participants) :
                  /\ HomeMatches(c) = n - 1
                  /\ AwayMatches(c) = n - 1

\* four clubs: 6 rounds, 12 fixtures, club 1 three times at home
C10_Witness ==
    /\ EvenLeagueScheduled
    /\ Len(sched.participants) = 4
    /\ sched.round_num = 6
    /\ Len(sched.matches) = 12
    /\ HomeMatches(1) = 3 /\ AwayMatches(1) = 3

\* a finished call for a league of an odd number (>= 3) of distinct clubs
OddLeagueScheduled ==
    /\ sched.pc = "returned"
    /\ Len(sched.participants) >= 3
    /\ Len(sched.participants) % 2 = 1
    /\ AllDistinct(sched.participants)

\* the number of saved matches of `club` on match day `day`
PlaysOnMatchDay(club, day) ==
    Cardinality({i \in 1..Len(sched.matches) :
                    /\ sched.matches[i].matchDay = day
                    /\ club \in {sched.matches[i].homeClubId,
                                 sched.matches[i].awayClubId}})

\* C11: for n distinct clubs, n odd (n >= 3), in every round one club rests
\* and each other club plays exactly once, and over the whole schedule every
\* unordered pair of distinct clubs meets exactly twice, once at each venue.
C11_OddLeagueBye ==
    OddLeagueScheduled =>
        LET n == Len(sched.participants)
        IN  /\ \A day \in 1..sched.round_num :
                  /\ OnMatchDay(day) = (n - 1) \div 2
                  /\ \A c \in ClubsOf(sched.participants) :
                        PlaysOnMatchDay(c, day) <= 1
            /\ \A a, b \in ClubsOf(sched.participants) :
                  a # b => Meetings(a, b) = 1

(***************************************************************************)
(* Properties of create_season.                                            *)
(***************************************************************************)
Occurrences(list, id) == Cardinality({i \in 1..Len(list) : list[i] = id})

KnownCountries ==
    {"volcania", "coastalia", "forestland", "desertia", "northlands", "islandia",
     "plainscountry", "stonehills", "riverside", "windlands", "sunlands",
     "mistcountry"}

\* the argument names an identifier that is no key of COUNTRIES
HasInvalidCountry ==
    /\ season.pc # "idle"
    /\ ~season.argument.is_none
    /\ \E i \in 1..Len(season.argument.list) :
          season.argument.list[i] \notin KnownCountries

\* C8: with an identifier that is no key of COUNTRIES among
\* participating_countries, create_season returns success=False with a
\* message listing exactly the offending identifiers, and before any work:
\* no season, competition or fixture is written, no club lookup is made.
C8_InvalidCountriesRejected ==
    HasInvalidCountry =>
        /\ season.db_seasons = 0
        /\ season.db_competitions = <<>>
        /\ season.db_matches = <<>>
        /\ season.write_attempts = 0
        /\ season.lookups = 0
        /\ season.pc \in {"call", "returned"}
        /\ season.pc = "returned" =>
              /\ season.result.success = FALSE
              /\ season.result.season_id = ""
              /\ season.result.competitions_created = 0
              /\ season.result.message.text = "Invalid countries"
              /\ \A id \in ValidPool \cup InvalidPool :
                    Occurrences(season.result.message.ids, id) =
                        IF id \in KnownCountries THEN 0
                        ELSE Occurrences(season.argument.list, id)

\* a valid and an invalid identifier, with clubs to schedule: rejected
C8_Witness ==
    /\ season.pc = "returned"
    /\ season.argument.list = <<"volcania", "atlantis">>
    /\ season.db_clubs.elite = 2
    /\ season.result.success = FALSE
    /\ season.result.message.ids = <<"atlantis">>

\* the stored competitions of the given type
CompetitionsOfType(type) ==
    {i \in 1..Len(season.db_competitions) : season.db_competitions[i].type = type}

\* the stored leagues with fewer than 2 participants
ShortLeagues ==
    {i \in CompetitionsOfType("domestic_league") :
        Len(season.db_competitions[i].participants) < 2}

\* the saved matches of the competition stored at place i
MatchesOf(i) ==
    {k \in 1..Len(season.db_matches) : season.db_matches[k].competitionId = i}

\* C12: a competition with fewer than 2 participants yields an empty
\* schedule and no error: scheduling it saves no match and raises nothing
\* (no failing write), and create_season goes on to return success=True.
C12_ShortLeagueEmptySchedule ==
    [][/\ (season.pc = "schedule" /\ season.competition_idx \in ShortLeagues) =>
             /\ season'.db_matches = season.db_matches
             /\ season'.failures = season.failures
             /\ season'.pc = "schedule"
             /\ season'.competition_idx = season.competition_idx + 1
       /\ (season.pc = "schedule" /\ season'.pc = "returned") =>
             /\ season'.result.success = TRUE
             /\ \A i \in ShortLeagues : MatchesOf(i) = {}]_vars

\* leagues of a single club were scheduled and the season was created
C12_Witness ==
    /\ season.pc = "returned"
    /\ season.result.success = TRUE
    /\ season.db_clubs.elite = 1
    /\ Cardinality(ShortLeagues) >= 2
    /\ season.competition_idx > Len(season.db_competitions)
    /\ season.db_matches = <<>>

\* the next power of two >= n
RECURSIVE NextPowerOfTwo(_, _)
NextPowerOfTwo(n, p) == IF p >= n THEN p ELSE NextPowerOfTwo(n, 2 * p)

\* the participants of the competition at place i that play one of its
\* matches of match day 1
FirstRoundPlayers(i) ==
    {c \in ClubsOf(season.db_competitions[i].participants) :
        \E k \in MatchesOf(i) :
            /\ season.db_matches[k].matchDay = 1
            /\ c \in {season.db_matches[k].homeClubId,
                      season.db_matches[k].awayClubId}}

\* C13: for every knockout cup (of two or more clubs) created in a season,
\* a first round is scheduled in which bracketSize - participantCount
\* participants have a bye (bracketSize the next power of two >=
\* participantCount), the byes go to the first (highest-seeded)
\* participants and nobody plays twice.
C13_KnockoutFirstRound ==
    (season.pc = "returned" /\ season.result.success = TRUE /\ season.failures = 0) =>
        \A i \in CompetitionsOfType("domestic_cup") :
            LET ps    == season.db_competitions[i].participants
                n     == Len(ps)
                byes  == NextPowerOfTwo(n, 1) - n
                first == {k \in MatchesOf(i) : season.db_matches[k].matchDay = 1}
            IN  n >= 2 =>
                  /\ Cardinality(first) = (n - byes) \div 2
                  /\ Cardinality(FirstRoundPlayers(i)) = n - byes
                  /\ \A j \in 1..n : j <= byes => ps[j] \notin FirstRoundPlayers(i)

\* C14: in every competition create_season stores, each clubId appears at
\* most once among the participants, also when participating_countries
\* names a country more than once.
C14_UniqueClubIds ==
    \A i \in 1..Len(season.db_competitions) :
        AllDistinct(season.db_competitions[i].participants)

\* the write of the Season record failed
SeasonSaveFailed ==
    /\ season.pc = "returned"
    /\ season.db_seasons = 0
    /\ ~HasInvalidCountry

\* C30: if persisting the Season record fails, create_season returns
\* success=False with an empty season_id and competitions_created = 0, and
\* nothing else happened: no club lookup, no competition or fixture write.
C30_SeasonSaveFailure ==
    SeasonSaveFailed =>
        /\ season.result.success = FALSE
        /\ season.result.season_id = ""
        /\ season.result.competitions_created = 0
        /\ season.result.participating_countries = <<>>
        /\ season.lookups = 0
        /\ season.write_attempts = 0
        /\ season.db_competitions = <<>>
        /\ season.db_matches = <<>>

\* a valid country with clubs to schedule, and the Season write failed
C30_Witness ==
    /\ SeasonSaveFailed
    /\ season.argument.list = <<"volcania">>
    /\ season.db_clubs.elite = 2
    /\ season.failures = 1
    /\ season.result.message.text = "Failed to create season in database"

\* C15: create_season returns success=True only if every competition it
\* built and every fixture it generated was written: no write of the
\* persistence sink failed, and every attempted competition is stored.
C15_FailuresSurfaced ==
    (season.pc = "returned" /\ season.result.success = TRUE) =>
        /\ season.failures = 0
        /\ Len(season.db_competitions) = season.write_attempts

\* C29: for distinct clubs, no club is in more than one fixture of the same
\* matchDay, the matchDay of a fixture is its round counted from 1 (each
\* completed round has its fixtures, no later day has any), fixtures are
\* emitted in non-decreasing matchDay order, up to matchDay 2*(n-1).
C29_MatchDayStructure ==
    (sched.pc \in {"rounds", "returned"} /\ AllDistinct(sched.participants)) =>
        LET n == Len(sched.participants)
        IN  /\ \A i \in 1..Len(sched.matches) :
                  /\ sched.matches[i].matchDay \in 1..sched.round_num
                  /\ PlaysOnMatchDay(sched.matches[i].homeClubId,
                                     sched.matches[i].matchDay) = 1
                  /\ PlaysOnMatchDay(sched.matches[i].awayClubId,
                                     sched.matches[i].matchDay) = 1
            /\ \A day \in 1..sched.round_num :
                  OnMatchDay(day) = sched.matches_per_round
            /\ \A i, j \in 1..Len(sched.matches) :
                  i < j => sched.matches[i].matchDay <= sched.matches[j].matchDay
            /\ sched.pc = "rounds" => sched.match_day = sched.round_num + 1
            /\ (sched.pc = "returned" /\ n >= 2) => sched.round_num = 2 * (n - 1)

\* five distinct clubs: 8 match days of 2 fixtures each
C29_Witness ==
    /\ sched.pc = "returned"
    /\ AllDistinct(sched.participants)
    /\ Len(sched.participants) = 5
    /\ sched.round_num = 8
    /\ Len(sched.matches) = 16
    /\ sched.matches[16].matchDay = 8

(***************************************************************************)
(* Totality of the detailed simulation.                                    *)
(***************************************************************************)
\* C16: for any two strength vectors with non-negative components (all-zero
\* vectors included), every rally computation completes with a result and
\* raises no error.
C16_RallyRaisesNothing ==
    rally.pc # "raised"

(***************************************************************************)
(* The strength cache of the optimized simulator.                          *)
(***************************************************************************)
\* simulate_match has just computed the strengths the match starts with
MatchStarts == sim = "optimized" /\ pc = "match_loop" /\ set_num = 0

\* C18: over any sequence of simulate_match calls on one instance, the
\* strength vector a team starts a match with is what recomputation gives
\* for its roster and tactics: never a value altered by an earlier match.
C18_CacheEqualsRecomputation ==
    MatchStarts =>
        /\ away_strength = CachedStrength
        /\ home_strength = [k \in StrengthKeys |-> HomeAdvantage(CachedStrength[k])]

(***************************************************************************)
(* Properties of the calculations.                                         *)
(***************************************************************************)
Returned(fn) == calc.pc = "returned" /\ calc.fn = fn

\* C17: for a team with no players, _calculate_team_strength returns exactly
\* 50.0 for overall, attack, defense, serve and receive, whatever the
\* tactics (any formation, known or not, any intensity).
C17_EmptyRosterBaseline ==
    (/\ Returned("_calculate_team_strength")
     /\ (~calc.args.team.has_players \/ calc.args.team.players = <<>>)) =>
        /\ DOMAIN calc.result = {"overall", "attack", "defense", "serve", "receive"}
        /\ \A k \in DOMAIN calc.result : calc.result[k] = 50 * Unit

\* an empty list of players, formation 6-2 and intensity 0: still 50.0
C17_Witness ==
    /\ Returned("_calculate_team_strength")
    /\ calc.args.team.has_players /\ calc.args.team.players = <<>>
    /\ calc.args.tactics.has_formation /\ calc.args.tactics.formation = "6-2"
    /\ calc.args.tactics.has_intensity /\ calc.args.tactics.intensity = 0
    /\ calc.result.attack = 50 * Unit

\* C28: for every non-empty roster and every tactics, the returned overall
\* is the mean of the returned attack, defense, serve and receive (up to the
\* truncation of the fixed-point divisions, 8 ten-thousandths in the sum).
C28_OverallIsMean ==
    (/\ Returned("_calculate_team_strength")
     /\ calc.args.team.has_players /\ calc.args.team.players # <<>>) =>
        Abs(4 * calc.result.overall
              - (calc.result.attack + calc.result.defense
                   + calc.result.serve + calc.result.receive)) <= 8

\* the events of the given type and team over every set of sets_results_
EventsOf(sets_results_, type, team) ==
    {<<i, j>> \in (1..Len(sets_results_)) \X (1..MaxRallyLog + 1) :
        /\ j <= Len(sets_results_[i].events)
        /\ sets_results_[i].events[j].type = type
        /\ sets_results_[i].events[j].team = team}

\* C19: the stats equal, for each side, the number of ATTACK_KILL (kills),
\* BLOCK_POINT (blocks), SERVE_ACE (aces) and SERVE_ERROR plus ATTACK_ERROR
\* (errors) events of that side over every event of every set; DIG_SAVE
\* events add to no counter; all counters are non-negative.
C19_StatsCountEvents ==
    Returned("_compile_match_stats") =>
        \A team \in Teams :
            LET sets == calc.args.sets_results
                st   == calc.result[team]
            IN  /\ st.kills = Cardinality(EventsOf(sets, "attack_kill", team))
                /\ st.blocks = Cardinality(EventsOf(sets, "block_point", team))
                /\ st.aces = Cardinality(EventsOf(sets, "serve_ace", team))
                /\ st.errors = Cardinality(EventsOf(sets, "serve_error", team))
                                 + Cardinality(EventsOf(sets, "attack_error", team))
                /\ \A c \in DOMAIN st : st[c] \in Nat

\* two sets, in each an away dig and a home kill: 2 kills, nothing else
C19_Witness ==
    /\ Returned("_compile_match_stats")
    /\ Len(calc.args.sets_results) = 2
    /\ Cardinality(EventsOf(calc.args.sets_results, "dig_save", "away")) = 2
    /\ calc.result.home = [kills |-> 2, blocks |-> 0, aces |-> 0, errors |-> 0]
    /\ calc.result.away = ZeroStats

\* C20: for attendance >= 0 and division tier >= 1, tickets, concessions and
\* merchandise are non-negative, total is their sum, the ticket price is
\* never below 5 and never higher in a lower division (greater tier).
C20_RevenueDecomposition ==
    Returned("_calculate_revenue") =>
        LET r == calc.result
            attendance == calc.args.attendance
            lower == [calc.args.club EXCEPT !.divisionTier = @ + 1]
        IN  /\ r.tickets >= 0 /\ r.concessions >= 0 /\ r.merchandise >= 0
            /\ r.total = r.tickets + r.concessions + r.merchandise
            /\ r.tickets >= 5 * attendance
            /\ calc.args.club.has_tier =>
                  CalculateRevenue(lower, attendance).tickets <= r.tickets

\* division 17, where 50 - 3 * tier is negative: the price is 5
C20_Witness ==
    /\ Returned("_calculate_revenue")
    /\ calc.args.club.has_tier /\ calc.args.club.divisionTier = 17
    /\ calc.args.attendance = 11
    /\ calc.result = [tickets |-> 55, concessions |-> 16, merchandise |-> 5,
                      total |-> 76]

====
